---- MODULE Spec2Model ----
(***************************************************************************)
(* Verification model of the wikiworlds front end.                         *)
(*                                                                         *)
(* Part 1: the mention suggestion controller                               *)
(*   src/editor/components/mention/mention-suggestion.ts                   *)
(* The controller is the closure returned by mentionRenderItems(): two     *)
(* captured variables (component, popup) and four callbacks the editor     *)
(* calls (onStart, onUpdate, onKeyDown, onExit).  The list instances       *)
(* (ReactRenderer) and the popups (tippy) it creates live on the heap;     *)
(* the model keeps every instance ever created, so that leaks and calls    *)
(* on disposed instances are visible.                                      *)
(***************************************************************************)
EXTENDS Integers, Sequences, FiniteSets, TLC

\* ------------------------------------------------------------------ bounds
\* longest query the editor passes
MaxQueryLen == 10
\* list instances one controller creates in a run
MaxInstances == 2
\* largest editor.storage.mentionItems.length
MaxItems == 1

\* ------------------------------------------------------------------ inputs
\* A query is a string: a sequence of characters, here a letter, a space and
\* a tab (whitespace that is not the space character).
Chars == {"a", " ", "\t"}

\* the characters the regular expression class \s matches
IsWhitespace(c) == c \in {" ", "\t"}

Strings == UNION {[1..k -> Chars] : k \in 0..MaxQueryLen}

\* clientRect: TRUE when the editor passes an anchor rect, FALSE when null
Rects == BOOLEAN

\* KeyboardEvent.key; "" is an event without a key
Keys == {"Escape", "Enter", "ArrowDown", ""}

\* what the list's own key handler returns: the keystroke was consumed or not
HandlerResults == {"true", "false"}

\* a callback that returns nothing returns undefined
Undefined == "undefined"

\* ------------------------------------------------------------------ state
VARIABLES
  component,   \* captured `component`: 0 is null, else an index of renderers
  popup,       \* captured `popup`: 0 is null, else an index of tippies
  renderers,   \* every ReactRenderer created: [destroyed]
  tippies,     \* every tippy instance created: [isDestroyed, isShown, content]
  sessionOpen, \* an onStart has been called and no onExit since
  overlapped,  \* some onStart was called while a session was open
  last,        \* the last callback: its arguments and its return value
  calls        \* the calls the last callback made on instances, in order

vars == <<component, popup, renderers, tippies, sessionOpen, overlapped, last, calls>>

\* the state of the tree views (Part 2)
VARIABLES
  entryTypes,        \* entryTypesData.data: the entry types of the world
  allEntries,        \* allEntriesData.data: the entries of the world
  selectedTags,      \* useState: the tags selected in the tree view
  treeCollection,    \* useMemo of WorldDetail: the grouped tree
  initialCollection, \* useMemo of EntryTypeSelector: the entry type hierarchy
  searchQuery,       \* useState: the text of the tree view's search box
  expandedNodes,     \* useState: the ids of the expanded nodes, in order
  tagsLoaded,        \* tagsData has arrived: `tags` is the same array each render
  treeOp             \* the last step of the tree view, and whether the
                     \* expansion effect ran in it

\* the state of EntryTypeSelector
VARIABLES
  showDropdown,      \* useState: the dropdown is open
  selectorQuery,     \* useState `query`: the text of the selector's search box
  collection,        \* useState: the collection the selector's tree displays
  expanded,          \* useState: the ids of the expanded nodes, in order
  isCreateModalOpen, \* useState: the create-entry-type modal is open
  handExpanded,      \* the user has toggled a branch since `expanded` was last set
  selectorOp         \* the last step of the selector

\* the state of the delete-entry-type dialog of WorldDetail
VARIABLES
  entryTypeToDelete,         \* useState: the type the dialog is about, or none
  deleteEntryTypeDialogOpen, \* useState: the dialog is open
  deletePending,             \* deleteEntryTypeMutation: the id being deleted, or Null
  deleteOp                   \* the last step of the dialog

\* the state of DeleteWeaveModal
VARIABLES
  weaveCount,        \* the number of weaves the user has on the server
  weavesLoaded,      \* weavesData has arrived
  weavesData,        \* the length of weavesData.data once it has arrived
  isOpen,            \* prop: the modal is open
  isDeleting,        \* useState
  deletePendingWeave, \* deleteMutation: the request is in flight
  weaveOp            \* the last step of the modal

\* the state of the selector, entryTypes and initialCollection apart
selVars ==
  <<showDropdown, selectorQuery, collection, expanded, isCreateModalOpen,
    handExpanded, selectorOp>>

treeVars ==
  <<entryTypes, allEntries, selectedTags, treeCollection, initialCollection,
    searchQuery, expandedNodes, tagsLoaded, treeOp, selVars,
    entryTypeToDelete, deleteEntryTypeDialogOpen, deletePending, deleteOp,
    weaveCount, weavesLoaded, weavesData, isOpen, isDeleting, deletePendingWeave,
    weaveOp>>

\* the part of the tree view's state that the builders do not read
viewVars == <<searchQuery, expandedNodes, tagsLoaded, treeOp>>

\* no step of the tree view yet
NoView ==
  /\ searchQuery = "" /\ expandedNodes = <<>> /\ tagsLoaded = FALSE
  /\ treeOp = [op |-> "none", effect |-> FALSE]

allVars == <<vars, treeVars>>

\* a memo not computed yet
NotBuilt == [built |-> FALSE, error |-> FALSE, nodes |-> <<>>, root |-> <<>>]

\* the selector not mounted
NoSelector ==
  /\ showDropdown = FALSE /\ selectorQuery = "" /\ collection = NotBuilt
  /\ expanded = <<>> /\ isCreateModalOpen = FALSE /\ handExpanded = FALSE
  /\ selectorOp = "none"

\* what the steps of the mention controller, of the builders and of the tree
\* view leave alone
delVars == <<entryTypeToDelete, deleteEntryTypeDialogOpen, deletePending, deleteOp>>

weaveVars ==
  <<weaveCount, weavesLoaded, weavesData, isOpen, isDeleting, deletePendingWeave,
    weaveOp>>

\* entryTypeToDelete = null
NoEntryType == [set |-> FALSE, id |-> "", name |-> ""]

\* the delete-entry-type dialog before any step
NoDeleteDialog ==
  /\ entryTypeToDelete = NoEntryType /\ deleteEntryTypeDialogOpen = FALSE
  /\ deletePending = "null"
  /\ deleteOp = [op |-> "none", mutate |-> "null"]

\* the delete-weave modal before any step, for a user with one weave
NoWeaveModal ==
  /\ weaveCount = 1 /\ weavesLoaded = FALSE /\ weavesData = 0
  /\ isOpen = FALSE /\ isDeleting = FALSE /\ deletePendingWeave = FALSE
  /\ weaveOp = [op |-> "none", mutated |-> FALSE]

notBuild == <<vars, viewVars, selVars, delVars, weaveVars>>
notView == <<vars, selVars, delVars, weaveVars>>

\* ------------------------------------------------------------ pure helpers
\* query.match(/([\s]+)/g)?.length || 0 : the number of maximal whitespace runs
getWhiteworldCount(query) ==
  Cardinality({i \in 1..Len(query) :
                 /\ IsWhitespace(query[i])
                 /\ (i = 1 \/ ~IsWhitespace(query[i - 1]))})

\* props.query.charAt(0) === " "
StartsWithSpace(query) == Len(query) > 0 /\ query[1] = " "

\* the number of words of a query: its maximal runs of characters that are
\* not whitespace
WordCount(query) ==
  Cardinality({i \in 1..Len(query) :
                 /\ ~IsWhitespace(query[i])
                 /\ (i = 1 \/ IsWhitespace(query[i - 1]))})

\* what the callbacks read of a query, and what the claims say of it
Reads(query) ==
  <<StartsWithSpace(query), getWhiteworldCount(query), WordCount(query)>>

\* The queries the editor passes: one string for every value of Reads over
\* all strings of at most MaxQueryLen characters.
Queries ==
  {CHOOSE q \in Strings : Reads(q) = r : r \in {Reads(q) : q \in Strings}}

\* popup?.[0].state.isDestroyed : undefined (falsy) when popup is null
PopupIsDestroyed == popup # 0 /\ tippies[popup].isDestroyed

\* popup?.[0].state.isShown : undefined (falsy) when popup is null
PopupIsShown == popup # 0 /\ tippies[popup].isShown

\* the captured instance exists and destroy() has not been called on it
ComponentLive == component # 0 /\ ~renderers[component].destroyed
PopupLive == popup # 0 /\ ~tippies[popup].isDestroyed

\* tippy instance.destroy(): a no-op when already destroyed; unmount hides it
TippyDestroy(ts, p) ==
  IF p = 0 THEN ts
  ELSE [ts EXCEPT ![p] = [@ EXCEPT !.isDestroyed = TRUE, !.isShown = FALSE]]

\* ReactRenderer.destroy()
RendererDestroy(rs, c) ==
  IF c = 0 THEN rs ELSE [rs EXCEPT ![c] = [@ EXCEPT !.destroyed = TRUE]]

\* the record of one call on an instance; live: the instance was not yet
\* destroyed when the call was made; arg: the key of the event passed, if any
Call(fn, on, live, arg) == [fn |-> fn, on |-> on, live |-> live, arg |-> arg]

\* popup?.[0].destroy() and component?.destroy(): no call on null
PopupDestroyCall ==
  IF popup = 0 THEN <<>> ELSE <<Call("popup.destroy", popup, PopupLive, "")>>
ComponentDestroyCall ==
  IF component = 0 THEN <<>>
  ELSE <<Call("component.destroy", component, ComponentLive, "")>>

\* what is recorded of a callback: its name, what it read of its arguments,
\* and what it returned
Args(op, query, rect, items, key, hasRef, handled, ret) ==
  [op |-> op,
   lead |-> StartsWithSpace(query),
   gaps |-> getWhiteworldCount(query),
   words |-> IF op = "onStart" THEN WordCount(query) ELSE 0,
   rect |-> rect, items |-> items, key |-> key,
   hasRef |-> hasRef, handled |-> handled, ret |-> ret]

NoArgs(op) == Args(op, <<>>, FALSE, 0, "", FALSE, Undefined, Undefined)

\* -------------------------------------------------------------------- Init
Init ==
  /\ component = 0
  /\ popup = 0
  /\ renderers = <<>>
  /\ tippies = <<>>
  /\ sessionOpen = FALSE
  /\ overlapped = FALSE
  /\ last = NoArgs("init")
  /\ calls = <<>>
  /\ entryTypes = <<>> /\ allEntries = <<>> /\ selectedTags = <<>>
  /\ treeCollection = NotBuilt /\ initialCollection = NotBuilt
  /\ NoView /\ NoSelector
  /\ NoDeleteDialog /\ NoWeaveModal

\* ----------------------------------------------------------------- onStart
StartGuardsIgnoreSpace(query) == ~(getWhiteworldCount(query) > 4)

StartGuardsOffByOne(query) ==
  /\ ~StartsWithSpace(query)
  /\ ~(getWhiteworldCount(query) > 3)

\* the two query guards of onStart: TRUE when it goes on to create the list
StartGuardsPass(query) ==
  /\ ~StartsWithSpace(query)
  /\ ~(getWhiteworldCount(query) > 4)

StartHasRectUnchecked(rect) == TRUE

\* if (!props.clientRect) return; : TRUE when onStart goes on to create the popup
StartHasRect(rect) == rect

onStart(query, rect) ==
  /\ StartGuardsPass(query) => Len(renderers) < MaxInstances
  /\ last' = Args("onStart", query, rect, 0, "", FALSE, Undefined, Undefined)
  /\ overlapped' = (overlapped \/ sessionOpen)
  /\ sessionOpen' = TRUE
  /\ IF ~StartGuardsPass(query)
     THEN /\ calls' = <<>>
          /\ UNCHANGED <<component, popup, renderers, tippies>>
     ELSE /\ renderers' = Append(renderers, [destroyed |-> FALSE])
          /\ component' = Len(renderers) + 1
          /\ IF ~StartHasRect(rect)
             THEN /\ calls' = <<Call("new ReactRenderer", component', TRUE, "")>>
                  /\ UNCHANGED <<popup, tippies>>
             ELSE /\ tippies' = Append(tippies,
                        [isDestroyed |-> FALSE, isShown |-> TRUE, content |-> component'])
                  /\ popup' = Len(tippies) + 1
                  /\ calls' = <<Call("new ReactRenderer", component', TRUE, ""),
                                Call("tippy", popup', TRUE, "")>>
  /\ UNCHANGED treeVars

\* ---------------------------------------------------------------- onUpdate
\* if (!popup?.[0].state.isDestroyed) component?.updateProps(props)
UpdatePropsCall ==
  IF ~PopupIsDestroyed /\ component # 0
  THEN <<Call("component.updateProps", component, ComponentLive, "")>>
  ELSE <<>>

\* whiteworldCount > 3 && props.editor.storage.mentionItems.length === 0
NoMatchGuard(query, items) == getWhiteworldCount(query) > 3 /\ items = 0

\* popup && !popup[0].state.isDestroyed && popup[0].setProps(...)
SetPropsCall ==
  IF popup # 0 /\ ~PopupIsDestroyed
  THEN <<Call("popup.setProps", popup, TRUE, "")>>
  ELSE <<>>

onUpdate(query, rect, items) ==
  /\ last' = Args("onUpdate", query, rect, items, "", FALSE, Undefined, Undefined)
  /\ UNCHANGED <<component, popup, sessionOpen, overlapped>>
  /\ IF StartsWithSpace(query)
     THEN /\ renderers' = RendererDestroy(renderers, component)
          /\ calls' = ComponentDestroyCall
          /\ UNCHANGED tippies
     ELSE IF ~rect
          THEN /\ calls' = UpdatePropsCall
               /\ UNCHANGED <<renderers, tippies>>
          ELSE IF NoMatchGuard(query, items)
               THEN /\ tippies' = TippyDestroy(tippies, popup)
                    /\ renderers' = RendererDestroy(renderers, component)
                    /\ calls' = UpdatePropsCall \o PopupDestroyCall \o ComponentDestroyCall
               ELSE /\ calls' = UpdatePropsCall \o SetPropsCall
                    /\ UNCHANGED <<renderers, tippies>>
  /\ UNCHANGED treeVars

\* --------------------------------------------------------------- onKeyDown
CloseKeyEscapeOnly(key) == key # "" /\ key = "Escape"

\* the close path: Escape, or Enter while the popup is not shown
CloseKey(key) ==
  key # "" /\ (key = "Escape" \/ (key = "Enter" /\ ~PopupIsShown))

DelegateResultDropped(hasRef, handled) == Undefined

\* return (component?.ref as any)?.onKeyDown(props)
DelegateResult(hasRef, handled) ==
  IF component # 0 /\ hasRef THEN handled ELSE Undefined

\* hasRef: component.ref is set (the list is mounted and exposes onKeyDown);
\* handled: what the list's own onKeyDown returns for this event
onKeyDown(key, hasRef, handled) ==
  /\ UNCHANGED <<component, popup, sessionOpen, overlapped>>
  /\ IF CloseKey(key)
     THEN /\ tippies' = TippyDestroy(tippies, popup)
          /\ renderers' = RendererDestroy(renderers, component)
          /\ calls' = PopupDestroyCall \o ComponentDestroyCall
          /\ last' = Args("onKeyDown", <<>>, FALSE, 0, key, hasRef, handled, "false")
     ELSE /\ UNCHANGED <<renderers, tippies>>
          /\ calls' = IF component # 0 /\ hasRef
                      THEN <<Call("ref.onKeyDown", component, ComponentLive, key)>>
                      ELSE <<>>
          /\ last' = Args("onKeyDown", <<>>, FALSE, 0, key, hasRef, handled,
                          DelegateResult(hasRef, handled))
  /\ UNCHANGED treeVars

\* ------------------------------------------------------------------ onExit
ExitPopupGuardUnchecked == popup # 0

ExitPopupGuardShown == popup # 0 /\ PopupIsShown

\* if (popup && !popup?.[0].state.isDestroyed)
ExitPopupGuard == popup # 0 /\ ~PopupIsDestroyed

onExit ==
  /\ last' = NoArgs("onExit")
  /\ sessionOpen' = FALSE
  /\ UNCHANGED <<component, popup, overlapped>>
  /\ tippies' = IF ExitPopupGuard THEN TippyDestroy(tippies, popup) ELSE tippies
  /\ renderers' = RendererDestroy(renderers, component)
  /\ calls' = (IF ExitPopupGuard THEN PopupDestroyCall ELSE <<>>)
              \o ComponentDestroyCall
  /\ UNCHANGED treeVars

\* ------------------------------------------------------------- environment
\* tippy's default hideOnClick: a click outside a shown popup hides it
hideOnClick(p) ==
  /\ ~tippies[p].isDestroyed /\ tippies[p].isShown
  /\ tippies' = [tippies EXCEPT ![p] = [@ EXCEPT !.isShown = FALSE]]
  /\ last' = NoArgs("hideOnClick")
  /\ calls' = <<>>
  /\ UNCHANGED <<component, popup, renderers, sessionOpen, overlapped>>
  /\ UNCHANGED treeVars

\* -------------------------------------------------------------------- Next
Next ==
  \/ \E query \in Queries, rect \in Rects : onStart(query, rect)
  \/ \E query \in Queries, rect \in Rects, items \in 0..MaxItems :
        onUpdate(query, rect, items)
  \/ \E key \in Keys, hasRef \in BOOLEAN, handled \in HandlerResults :
        onKeyDown(key, hasRef, handled)
  \/ onExit
  \/ \E p \in 1..Len(tippies) : hideOnClick(p)

Spec == Init /\ [][Next]_allVars

\* ------------------------------------------------------- claim vocabulary
\* the last callback made a call of this kind
Called(fn) == \E i \in DOMAIN calls : calls[i].fn = fn

\* the instances the controller holds, as one tuple
held == <<component, popup, renderers, tippies>>

\* every instance the controller ever created has been destroyed
AllDisposed ==
  /\ \A c \in DOMAIN renderers : renderers[c].destroyed
  /\ \A p \in DOMAIN tippies : tippies[p].isDestroyed

\* the last callback was onStart and both of its query guards passed
StartedPastGuards == last.op = "onStart" /\ ~last.lead /\ last.gaps <= 4

\* the key of the callback now returning is on the close path, judged on the
\* state the callback was called in
ClosingKey == last'.key = "Escape" \/ (last'.key = "Enter" /\ ~PopupIsShown)

\* ------------------------------------------------------------------ claims

\* C1: after onExit returns, the popup and the list instance the controller
\* holds are both destroyed; an onExit called when both are already destroyed
\* changes nothing the controller holds and makes no destroy call on the popup.
C1_OnExitDisposes ==
  [][last'.op = "onExit" =>
       /\ ~PopupLive' /\ ~ComponentLive'
       /\ (~PopupLive /\ ~ComponentLive) =>
            (held' = held /\ \A i \in DOMAIN calls' : calls'[i].fn # "popup.destroy")
    ]_vars

\* C1 witness: onExit has run on a controller whose popup and list instance
\* were both already destroyed.
C1_Witness ==
  /\ last.op = "onExit"
  /\ popup # 0 /\ component # 0
  /\ calls = <<Call("component.destroy", component, FALSE, "")>>

\* C2 as stated: after any onExit, in every sequence of callbacks, every
\* instance the controller ever created is destroyed.
C2_Original == last.op = "onExit" => AllDisposed

\* C2 amended: after any onExit, in every sequence of callbacks in which no
\* onStart was called while a session was open, every instance the
\* controller ever created is destroyed.
C2_NoLeakWhenSessionsAlternate ==
  (last.op = "onExit" /\ ~overlapped) => AllDisposed

\* C2 witness: a second session, started after the first was exited, has
\* been exited too, each with its own list instance and popup.
C2_Witness ==
  /\ last.op = "onExit" /\ ~overlapped
  /\ Len(renderers) = 2 /\ Len(tippies) = 2

\* C3 as stated: onUpdate with a query starting with a space, called while the
\* list and the popup are live, leaves neither of them live.
C3_Original ==
  [][(last'.op = "onUpdate" /\ last'.lead /\ ComponentLive /\ PopupLive) =>
       (~PopupLive' /\ ~ComponentLive')]_vars

\* C4 as stated: onUpdate with a query not starting with a space, with more
\* than 3 whitespace gaps, and zero mention results, called while the list and
\* the popup are live, leaves neither of them live, whatever the anchor rect.
C4_Original ==
  [][(/\ last'.op = "onUpdate" /\ ~last'.lead
      /\ last'.gaps > 3 /\ last'.items = 0
      /\ ComponentLive /\ PopupLive) =>
       (~PopupLive' /\ ~ComponentLive')]_vars

\* C5 as stated: onUpdate never calls updateProps on a list instance that
\* has already been destroyed.
C5_Original ==
  \A i \in DOMAIN calls :
     calls[i].fn = "component.updateProps" => calls[i].live

\* C6: onStart with a query whose first character is a space creates no list
\* instance and no popup, and leaves component and popup as they were.
C6_StartLeadingSpace ==
  [][(last'.op = "onStart" /\ last'.lead) => (calls' = <<>> /\ held' = held)]_vars

\* C6 witness: onStart has been called with a query starting with a space.
C6_Witness == last.op = "onStart" /\ last.lead /\ calls = <<>>

\* C7 as stated: onStart creates nothing when the query has more than 4
\* space-separated words, and creates the list instance when the query does
\* not start with a space and has at most 4 space-separated words.
C7_Original ==
  last.op = "onStart" =>
    /\ last.words > 4 => calls = <<>>
    /\ (~last.lead /\ last.words <= 4) => Called("new ReactRenderer")

\* C7 amended: onStart creates nothing when the query has more than 4
\* whitespace runs, and creates the list instance when the query does not
\* start with a space and has at most 4 whitespace runs.
C7_StartGapGuard ==
  last.op = "onStart" =>
    /\ last.gaps > 4 => calls = <<>>
    /\ (~last.lead /\ last.gaps <= 4) => Called("new ReactRenderer")

\* C7 witness: onStart has refused a query that does not start with a space
\* for its whitespace runs alone.
C7_Witness == last.op = "onStart" /\ ~last.lead /\ last.gaps > 4 /\ calls = <<>>

\* C8: an onStart that passes both query guards without an anchor rect creates
\* a list instance and no popup; with an anchor rect it creates a list
\* instance and a popup that shows that list.
C8_StartAnchorRect ==
  [][StartedPastGuards' =>
       /\ component' = Len(renderers) + 1
       /\ renderers' = Append(renderers, [destroyed |-> FALSE])
       /\ IF last'.rect
          THEN /\ popup' = Len(tippies) + 1
               /\ Len(tippies') = Len(tippies) + 1
               /\ tippies'[popup'].content = component'
               /\ tippies'[popup'].isShown /\ ~tippies'[popup'].isDestroyed
          ELSE /\ popup' = popup /\ tippies' = tippies
               /\ ~\E i \in DOMAIN calls' : calls'[i].fn = "tippy"
    ]_vars

\* C8 witness: an onStart without anchor rect has created a list instance
\* on a controller that has no popup at all.
C8_Witness ==
  /\ StartedPastGuards /\ ~last.rect
  /\ ComponentLive /\ popup = 0 /\ tippies = <<>>

\* C9: onKeyDown with Escape, or with Enter while the popup is not shown
\* (or there is no popup), destroys the popup if any and the list instance,
\* returns false and does not call the list instance's key handler.
C9_KeyDownClose ==
  [][(last'.op = "onKeyDown" /\ ClosingKey) =>
       /\ ~PopupLive' /\ ~ComponentLive'
       /\ component' = component /\ popup' = popup
       /\ last'.ret = "false"
       /\ \A i \in DOMAIN calls' : calls'[i].fn # "ref.onKeyDown"
    ]_vars

\* C9 witness: Enter has closed a session whose popup was still undestroyed
\* but hidden.
C9_Witness ==
  /\ last.op = "onKeyDown" /\ last.key = "Enter" /\ last.ret = "false"
  /\ calls = <<Call("popup.destroy", popup, TRUE, ""),
               Call("component.destroy", component, TRUE, "")>>

\* C10 as stated: onKeyDown with any other keystroke destroys nothing, calls
\* the list instance's key handler exactly once with the event and returns
\* what that handler returns.
C10_Original ==
  [][(last'.op = "onKeyDown" /\ ~ClosingKey) =>
       /\ held' = held
       /\ Len(calls') = 1
       /\ calls'[1].fn = "ref.onKeyDown" /\ calls'[1].arg = last'.key
       /\ last'.ret = last'.handled
    ]_vars

\* C10 amended: onKeyDown with any other keystroke destroys nothing; when the
\* controller holds a list instance whose key handler is reachable (component
\* and component.ref are set) it calls that handler exactly once with the
\* event and returns what the handler returns; otherwise it calls nothing and
\* returns undefined.
C10_KeyDownDelegates ==
  [][(last'.op = "onKeyDown" /\ ~ClosingKey) =>
       /\ held' = held
       /\ IF component # 0 /\ last'.hasRef
          THEN /\ calls' = <<Call("ref.onKeyDown", component, ComponentLive, last'.key)>>
               /\ last'.ret = last'.handled
          ELSE /\ calls' = <<>>
               /\ last'.ret = Undefined
    ]_vars

\* C10 witness: Enter, pressed while the popup is shown, has been delegated
\* to the live list instance, which consumed it.
C10_Witness ==
  /\ last.op = "onKeyDown" /\ last.key = "Enter" /\ last.ret = "true"
  /\ calls = <<Call("ref.onKeyDown", component, TRUE, "Enter")>>
  /\ PopupIsShown


(***************************************************************************)
(* Part 2: the tree builders                                               *)
(*   WorldDetail.treeCollection   src/frontend/src/app/(protected)/weaves/ *)
(*                                [weaveId]/worlds/[worldId]/page.tsx      *)
(*   EntryTypeSelector.buildTree  src/frontend/src/components/Weaves/      *)
(*                                EntryTypeSelector.tsx                    *)
(* Both are computed in a useMemo from the lists the API returns.  The     *)
(* grouped builder links node objects by reference, so its nodes are kept  *)
(* in a heap (a function from node keys to node records) and children are  *)
(* sequences of keys; buildTree creates fresh nested nodes.                *)
(***************************************************************************)

\* ------------------------------------------------------------------ bounds
\* entry types in the list the API returns
MaxTypes == 3
\* entries in the list the API returns
MaxEntries == 2
\* frames the call stack holds before a RangeError is raised
MaxDepth == 5

\* ------------------------------------------------------------------ inputs
\* ids are distinct (primary keys); the i-th entry type has the i-th id
TypeIdPool == <<"t1", "t2", "t3", "t4", "t5">>
TypeNamePool == <<"a", "b", "ab", "ba", "bb">>
\* (entries and entry types are keyed apart: the first entry has the id
\* of the first entry type)
EntryIdPool == <<"t1", "e2", "e3", "e4">>

\* parent_id: null
Null == "null"

\* an id that no entry type of the list has
DanglingId == "tx"

EntryTitles == {"a", "B"}

\* entry.tags: absent, or a set of tag names
EntryTagSets == {[hasTags |-> FALSE, tags |-> {}],
                 [hasTags |-> TRUE, tags |-> {"x"}],
                 [hasTags |-> TRUE, tags |-> {"x", "y"}]}

TagSelections == {<<>>, <<"x">>, <<"x", "y">>}

TypeIdsOf(k) == {TypeIdPool[i] : i \in 1..k}

\* the lists of k entry types: every parent_id is null, the id of a type of
\* the list (its own included) or a dangling id
EntryTypeLists(k) ==
  {[i \in 1..k |-> [id |-> TypeIdPool[i], name |-> TypeNamePool[i], parent_id |-> ps[i]]] :
     ps \in [1..k -> {Null, DanglingId} \cup TypeIdsOf(k)]}

\* the lists of m entries over k entry types
EntryLists(m, k) ==
  {[i \in 1..m |-> [id |-> EntryIdPool[i], title |-> f[i][1],
                    entry_type_id |-> f[i][2],
                    hasTags |-> f[i][3].hasTags, tags |-> f[i][3].tags]] :
     f \in [1..m -> EntryTitles \X (TypeIdsOf(k) \cup {DanglingId}) \X EntryTagSets]}

\* ---------------------------------------------------- grouped tree builder
\* String.prototype.localeCompare on titles: letters compare by base letter
\* first, and a lower-case letter sorts before its upper-case letter
Letters == <<"a", "A", "b", "B">>

CharRank(c) == CHOOSE i \in DOMAIN Letters : Letters[i] = c

BaseRank(c) == (CharRank(c) + 1) \div 2

\* the collation key of a letter at the primary (base letter) level or at
\* the tertiary (case) level
Rank(c, primary) == IF primary THEN BaseRank(c) ELSE CharRank(c)

\* the first position where the letters differ at that level, or 0
FirstDiff(a, b, primary) ==
  LET n == IF Len(a) < Len(b) THEN Len(a) ELSE Len(b)
      ds == {i \in 1..n : Rank(SubSeq(a, i, i), primary) # Rank(SubSeq(b, i, i), primary)}
  IN IF ds = {} THEN 0 ELSE CHOOSE i \in ds : \A j \in ds : i <= j

\* negative, zero or positive
LocaleCompare(a, b) ==
  LET d1 == FirstDiff(a, b, TRUE)
      d2 == FirstDiff(a, b, FALSE)
  IN IF d1 # 0 THEN BaseRank(SubSeq(a, d1, d1)) - BaseRank(SubSeq(b, d1, d1))
     ELSE IF Len(a) # Len(b) THEN Len(a) - Len(b)
     ELSE IF d2 # 0 THEN CharRank(SubSeq(a, d2, d2)) - CharRank(SubSeq(b, d2, d2))
     ELSE 0

\* entries.sort((a, b) => a.title.localeCompare(b.title)): a stable sort
RECURSIVE SortByTitle(_)
SortByTitle(es) ==
  IF Len(es) <= 1 THEN es
  ELSE LET front == SortByTitle(SubSeq(es, 1, Len(es) - 1))
           e == es[Len(es)]
           k == Cardinality({i \in DOMAIN front :
                               LocaleCompare(front[i].title, e.title) <= 0})
       IN SubSeq(front, 1, k) \o <<e>> \o SubSeq(front, k + 1, Len(front))

HasSomeTag(entry, tags) ==
  entry.hasTags /\ \E i \in DOMAIN tags : tags[i] \in entry.tags

\* entry.tags && selectedTags.every((tag) => entry.tags.includes(tag))
HasAllTags(entry, tags) ==
  entry.hasTags /\ \A i \in DOMAIN tags : tags[i] \in entry.tags

\* filteredEntries
FilterByTags(entries, tags) ==
  IF Len(tags) = 0 THEN entries
  ELSE SelectSeq(entries, LAMBDA e : HasAllTags(e, tags))

\* entriesByType.get(type.id) || []
EntriesOfType(entries, typeId) ==
  SelectSeq(entries, LAMBDA e : e.entry_type_id = typeId)

\* the keys of node objects in the heap
FolderKey(typeId) == <<"folder", typeId>>
EntryKey(entryId) == <<"entry", entryId>>

\* the tree node of an entry
EntryNode(entry) ==
  [id |-> entry.id, name |-> entry.title, isEntryTypeFolder |-> FALSE,
   hasChildren |-> FALSE, children |-> <<>>,
   hasCount |-> FALSE, childrenCount |-> 0,
   hasParentId |-> FALSE, parentId |-> Null]

TypeNodeBareId(type, entryNodes) ==
  [id |-> type.id, name |-> type.name, isEntryTypeFolder |-> TRUE,
   hasChildren |-> Len(entryNodes) > 0,
   children |-> [i \in DOMAIN entryNodes |-> EntryKey(entryNodes[i].id)],
   hasCount |-> TRUE, childrenCount |-> Len(entryNodes),
   hasParentId |-> TRUE, parentId |-> type.parent_id]

TypeNodeWithChildren(type, entryNodes) ==
  [id |-> "type-" \o type.id, name |-> type.name, isEntryTypeFolder |-> TRUE,
   hasChildren |-> TRUE,
   children |-> [i \in DOMAIN entryNodes |-> EntryKey(entryNodes[i].id)],
   hasCount |-> TRUE, childrenCount |-> Len(entryNodes),
   hasParentId |-> TRUE, parentId |-> type.parent_id]

\* the tree node of an entry type, with its entry nodes as children
TypeNode(type, entryNodes) ==
  [id |-> "type-" \o type.id, name |-> type.name, isEntryTypeFolder |-> TRUE,
   hasChildren |-> Len(entryNodes) > 0,
   children |-> [i \in DOMAIN entryNodes |-> EntryKey(entryNodes[i].id)],
   hasCount |-> TRUE, childrenCount |-> Len(entryNodes),
   hasParentId |-> TRUE, parentId |-> type.parent_id]

\* typeNodesMap after entryTypes.forEach (lines 447-473), with the entry nodes
CreateNodes(types, entries) ==
  LET sorted == [i \in DOMAIN types |-> SortByTitle(EntriesOfType(entries, types[i].id))]
  IN [k \in {FolderKey(types[i].id) : i \in DOMAIN types}
            \cup UNION {{EntryKey(sorted[i][j].id) : j \in DOMAIN sorted[i]} : i \in DOMAIN types}
        |-> IF k[1] = "folder"
            THEN LET i == CHOOSE i \in DOMAIN types : types[i].id = k[2]
                 IN TypeNode(types[i], [j \in DOMAIN sorted[i] |-> EntryNode(sorted[i][j])])
            ELSE LET e == CHOOSE e \in {entries[j] : j \in DOMAIN entries} : e.id = k[2]
                 IN EntryNode(e)]

Push(heap, parentKey, childKey) ==
  [heap EXCEPT ![parentKey] =
     [@ EXCEPT !.hasChildren = TRUE, !.children = @ \o <<childKey>>]]

\* parentNode.children.unshift(typedNode), creating the array if absent
Unshift(heap, parentKey, childKey) ==
  [heap EXCEPT ![parentKey] =
     [@ EXCEPT !.hasChildren = TRUE, !.children = <<childKey>> \o @]]

\* first pass (lines 479-508), from the i-th entry type on
RECURSIVE LinkPass(_, _, _)
LinkPass(types, heap, i) ==
  IF i > Len(types) THEN heap
  ELSE LET typeId == types[i].id
           parentId == heap[FolderKey(typeId)].parentId
       IN IF parentId # Null /\ parentId = typeId
          THEN LinkPass(types, heap, i + 1)
          ELSE IF parentId # Null /\ FolderKey(parentId) \in DOMAIN heap
               THEN LinkPass(types, Unshift(heap, FolderKey(parentId), FolderKey(typeId)), i + 1)
               ELSE LinkPass(types, heap, i + 1)

IsRootNullOnly(heap, typeId) == heap[FolderKey(typeId)].parentId = Null

\* parentId === null || !typeNodesMap.has(parentId)
IsRoot(heap, typeId) ==
  LET parentId == heap[FolderKey(typeId)].parentId
  IN parentId = Null \/ FolderKey(parentId) \notin DOMAIN heap

\* second pass (lines 511-520): rootNodes
RootNodes(types, heap) ==
  LET roots == SelectSeq(types, LAMBDA t : IsRoot(heap, t.id))
  IN [i \in DOMAIN roots |-> FolderKey(roots[i].id)]

\* delete node._parentId
DeleteParentId(node) == [node EXCEPT !.hasParentId = FALSE, !.parentId = Null]

\* second pass (line 517): roots lose _parentId
StripRoots(heap, roots) ==
  [k \in DOMAIN heap |->
     IF \E i \in DOMAIN roots : roots[i] = k THEN DeleteParentId(heap[k]) ELSE heap[k]]

StripNone(heap) == heap

\* third pass (lines 523-525): every node of typeNodesMap loses _parentId
StripAll(heap) ==
  [k \in DOMAIN heap |-> IF k[1] = "folder" THEN DeleteParentId(heap[k]) ELSE heap[k]]

\* lines 433-535: the tree of the entry types over the filtered entries
GroupEntries(types, filteredEntries) ==
  LET created == CreateNodes(types, filteredEntries)
      linked == LinkPass(types, created, 1)
      roots == RootNodes(types, linked)
  IN [built |-> TRUE, error |-> FALSE,
      nodes |-> StripAll(StripRoots(linked, roots)), root |-> roots]

\* the useMemo of lines 404-536
BuildGroupedTree(types, entries, tags) ==
  IF Len(types) = 0
  THEN [built |-> TRUE, error |-> FALSE, nodes |-> <<>>, root |-> <<>>]
  ELSE GroupEntries(types, FilterByTags(entries, tags))

\* ------------------------------------------------- entry type hierarchy
buildTreeOneLevel(types, parentId, depth) ==
  LET kids == SelectSeq(types, LAMBDA t : t.parent_id = parentId)
  IN [error |-> FALSE,
      nodes |-> [i \in DOMAIN kids |->
                   [id |-> kids[i].id, name |-> kids[i].name,
                    hasChildren |-> FALSE, children |-> <<>>]]]

RECURSIVE buildTreeSelfParentsAsRoots(_, _, _)
buildTreeSelfParentsAsRoots(types, parentId, depth) ==
  IF depth > MaxDepth THEN [error |-> TRUE, nodes |-> <<>>]
  ELSE LET kids == SelectSeq(types, LAMBDA t :
                     t.parent_id = parentId \/ (parentId = Null /\ t.parent_id = t.id))
           subs == [i \in DOMAIN kids |->
                      buildTreeSelfParentsAsRoots(types, kids[i].id, depth + 1)]
       IN [error |-> \E i \in DOMAIN kids : subs[i].error,
           nodes |-> [i \in DOMAIN kids |->
                        [id |-> kids[i].id, name |-> kids[i].name,
                         hasChildren |-> Len(subs[i].nodes) > 0,
                         children |-> subs[i].nodes]]]

\* buildTree(parentId) of lines 102-114; depth counts the frames on the stack
RECURSIVE buildTree(_, _, _)
buildTree(types, parentId, depth) ==
  IF depth > MaxDepth THEN [error |-> TRUE, nodes |-> <<>>]
  ELSE LET kids == SelectSeq(types, LAMBDA t : t.parent_id = parentId)
           subs == [i \in DOMAIN kids |-> buildTree(types, kids[i].id, depth + 1)]
       IN [error |-> \E i \in DOMAIN kids : subs[i].error,
           nodes |-> [i \in DOMAIN kids |->
                        [id |-> kids[i].id, name |-> kids[i].name,
                         hasChildren |-> Len(subs[i].nodes) > 0,
                         children |-> subs[i].nodes]]]

\* the useMemo of lines 100-127
BuildHierarchy(types) ==
  LET children == buildTree(types, Null, 1)
  IN [built |-> TRUE, error |-> children.error, nodes |-> <<>>, root |-> children.nodes]

\* ------------------------------------------------------------------ BuildSpec
\* the lists the API has returned and the tags selected, before the first
\* render of the two components
BuildInit ==
  /\ \E k \in 0..MaxTypes :
       /\ entryTypes \in EntryTypeLists(k)
       /\ \E m \in 0..MaxEntries : allEntries \in EntryLists(m, k)
  /\ selectedTags \in TagSelections
  /\ treeCollection = NotBuilt
  /\ initialCollection = NotBuilt
  /\ NoView /\ NoSelector
  /\ component = 0 /\ popup = 0 /\ renderers = <<>> /\ tippies = <<>>
  /\ sessionOpen = FALSE /\ overlapped = FALSE
  /\ last = NoArgs("init") /\ calls = <<>>
  /\ NoDeleteDialog /\ NoWeaveModal

\* WorldDetail renders: the memo of treeCollection is computed
renderWorldDetail ==
  /\ ~treeCollection.built
  /\ treeCollection' = BuildGroupedTree(entryTypes, allEntries, selectedTags)
  /\ UNCHANGED <<entryTypes, allEntries, selectedTags, initialCollection>>
  /\ UNCHANGED notBuild

\* EntryTypeSelector renders: the memo of initialCollection is computed
renderEntryTypeSelector ==
  /\ ~initialCollection.built
  /\ initialCollection' = BuildHierarchy(entryTypes)
  /\ UNCHANGED <<entryTypes, allEntries, selectedTags, treeCollection>>
  /\ UNCHANGED notBuild

BuildNext == renderWorldDetail \/ renderEntryTypeSelector

BuildSpec == BuildInit /\ [][BuildNext]_allVars


\* --------------------------------------------------- EntryTypeActions
\* String.prototype.replace(pattern, replacement) with a string pattern: the
\* first occurrence of the pattern is replaced, if there is one
Replace(str, pattern, replacement) ==
  LET n == Len(pattern)
      at == {i \in 1..(Len(str) - n + 1) : SubSeq(str, i, i + n - 1) = pattern}
  IN IF at = {} THEN str
     ELSE LET i == CHOOSE i \in at : \A j \in at : i <= j
          IN SubSeq(str, 1, i - 1) \o replacement \o SubSeq(str, i + n, Len(str))

\* entryTypeId = node.id.replace("type-", "")
entryTypeId(node) == Replace(node.id, "type-", "")

\* ------------------------------------------------ search and expansion
\* entries in the list of ViewSpec
MaxViewEntries == 1

\* what the user types into the search box
SearchQueries == {"", "a", "B", "ab"}

\* contains(name, query) of useFilter({ sensitivity: "base" }): the query,
\* letters compared by base letter (case ignored), occurs in the name
Contains(name, query) ==
  \E i \in 1..(Len(name) - Len(query) + 1) :
    \A j \in 1..Len(query) :
      BaseRank(SubSeq(name, i + j - 1, i + j - 1)) = BaseRank(SubSeq(query, j, j))

\* the nodes reachable from these through children
RECURSIVE Descendants(_, _)
Descendants(heap, ks) ==
  LET next == ks \cup UNION {{heap[k].children[i] : i \in DOMAIN heap[k].children} : k \in ks}
  IN IF next = ks THEN ks ELSE Descendants(heap, next)

\* treeCollection.filter(predicate) of the tree collection: a new collection
\* that keeps ROOT and every node that matches or has a kept descendant,
\* each with its kept children
filter(tc, query) ==
  LET reach == Descendants(tc.nodes, {tc.root[i] : i \in DOMAIN tc.root})
      kept == {k \in reach :
                 \E d \in Descendants(tc.nodes, {k}) : Contains(tc.nodes[d].name, query)}
  IN [built |-> TRUE, error |-> FALSE,
      nodes |-> [k \in kept |->
                   [tc.nodes[k] EXCEPT !.hasChildren = TRUE,
                                       !.children = SelectSeq(@, LAMBDA c : c \in kept)]],
      root |-> SelectSeq(tc.root, LAMBDA c : c \in kept)]

filteredAlways == filter(treeCollection, searchQuery)

\* filteredTreeCollection (lines 539-542)
filteredTreeCollection ==
  IF searchQuery = "" THEN treeCollection ELSE filter(treeCollection, searchQuery)

\* getBranchValues() of the tree collection: the ids, in document order, of
\* the nodes below ROOT that have children or a childrenCount
RECURSIVE BranchValuesOf(_, _)
BranchValuesOf(heap, ks) ==
  IF Len(ks) = 0 THEN <<>>
  ELSE LET node == heap[Head(ks)]
       IN (IF Len(node.children) > 0 \/ node.hasCount THEN <<node.id>> ELSE <<>>)
          \o BranchValuesOf(heap, node.children)
          \o BranchValuesOf(heap, Tail(ks))

getBranchValues(tc) == BranchValuesOf(tc.nodes, tc.root)

\* collectEntryTypeFolderIds(nodes) of lines 574-585
RECURSIVE collectEntryTypeFolderIds(_, _)
collectEntryTypeFolderIds(heap, ks) ==
  IF Len(ks) = 0 THEN <<>>
  ELSE LET node == heap[Head(ks)]
       IN (IF node.isEntryTypeFolder
           THEN <<node.id>> \o (IF node.hasChildren
                               THEN collectEntryTypeFolderIds(heap, node.children)
                               ELSE <<>>)
           ELSE <<>>)
          \o collectEntryTypeFolderIds(heap, Tail(ks))

\* branchValues (line 551) or entryTypeFolderIds (lines 588-590)
SyncTarget(tc, query) ==
  IF query # "" THEN getBranchValues(filter(tc, query))
  ELSE collectEntryTypeFolderIds(tc.nodes, tc.root)

SetIfSizeDiffers(prev, target) ==
  IF Cardinality({prev[i] : i \in DOMAIN prev})
       # Cardinality({target[i] : i \in DOMAIN target})
  THEN target ELSE prev

SetAlways(prev, target) == target

\* the updater passed to setExpandedNodes (lines 554-564, 593-603)
SetIfDifferent(prev, target) ==
  IF \/ Cardinality({prev[i] : i \in DOMAIN prev})
          # Cardinality({target[i] : i \in DOMAIN target})
     \/ ~\A i \in DOMAIN target : target[i] \in {prev[j] : j \in DOMAIN prev}
  THEN target ELSE prev

\* the useEffect of lines 545-598
SyncExpanded(tc, query, prev) == SetIfDifferent(prev, SyncTarget(tc, query))

\* the lists the API has returned, and the tree view after its first render
\* and the first run of the expansion effect
ViewInit ==
  /\ \E k \in 0..MaxTypes :
       /\ entryTypes \in EntryTypeLists(k)
       /\ \E m \in 0..MaxViewEntries : allEntries \in EntryLists(m, k)
  /\ selectedTags = <<>>
  /\ searchQuery = ""
  /\ tagsLoaded \in BOOLEAN
  /\ treeCollection = BuildGroupedTree(entryTypes, allEntries, selectedTags)
  /\ expandedNodes = SyncExpanded(treeCollection, searchQuery, <<>>)
  /\ treeOp = [op |-> "mount", effect |-> TRUE]
  /\ initialCollection = NotBuilt
  /\ NoSelector
  /\ component = 0 /\ popup = 0 /\ renderers = <<>> /\ tippies = <<>>
  /\ sessionOpen = FALSE /\ overlapped = FALSE
  /\ last = NoArgs("init") /\ calls = <<>>
  /\ NoDeleteDialog /\ NoWeaveModal

\* onSearchQueryChange: the search box changes; the render that follows
\* runs the expansion effect, whose dependency searchQuery changed
setSearchQuery(query) ==
  /\ query # searchQuery
  /\ searchQuery' = query
  /\ expandedNodes' = SyncExpanded(treeCollection, query, expandedNodes)
  /\ treeOp' = [op |-> "setSearchQuery", effect |-> TRUE]
  /\ UNCHANGED <<entryTypes, allEntries, selectedTags, treeCollection,
                 initialCollection, tagsLoaded>>
  /\ UNCHANGED notView

\* onSelectedTagsChange: a tag is selected or removed (the tags shown are
\* those of tagsData); the memo of treeCollection is recomputed and the
\* expansion effect runs
setSelectedTags(tags) ==
  /\ tagsLoaded
  /\ tags # selectedTags
  /\ selectedTags' = tags
  /\ treeCollection' = BuildGroupedTree(entryTypes, allEntries, tags)
  /\ expandedNodes' = SyncExpanded(treeCollection', searchQuery, expandedNodes)
  /\ treeOp' = [op |-> "setSelectedTags", effect |-> TRUE]
  /\ UNCHANGED <<entryTypes, allEntries, initialCollection, searchQuery, tagsLoaded>>
  /\ UNCHANGED notView

\* the node is shown: each of its ancestors in the rendered tree is expanded
RECURSIVE Shown(_, _)
Shown(tc, k) ==
  \/ \E i \in DOMAIN tc.root : tc.root[i] = k
  \/ \E p \in DOMAIN tc.nodes :
       /\ \E i \in DOMAIN tc.nodes[p].children : tc.nodes[p].children[i] = k
       /\ \E i \in DOMAIN expandedNodes : expandedNodes[i] = tc.nodes[p].id
       /\ Shown(tc, p)

\* what TreeView.Root reports when the branch is toggled
Toggled(id) ==
  IF \E i \in DOMAIN expandedNodes : expandedNodes[i] = id
  THEN SelectSeq(expandedNodes, LAMBDA v : v # id)
  ELSE Append(expandedNodes, id)

\* onExpandedChange: the user expands or collapses a branch that is shown.
\* Until tagsData arrives, `tags` is a new array in each render, so the memos
\* of allTagNames and treeCollection are recomputed and the expansion effect
\* runs in the render that follows.
onExpandedNodesChange(k) ==
  /\ k \in DOMAIN filteredTreeCollection.nodes
  /\ filteredTreeCollection.nodes[k].isEntryTypeFolder
  /\ Shown(filteredTreeCollection, k)
  /\ expandedNodes' =
       IF tagsLoaded THEN Toggled(filteredTreeCollection.nodes[k].id)
       ELSE SyncExpanded(treeCollection, searchQuery,
                         Toggled(filteredTreeCollection.nodes[k].id))
  /\ treeOp' = [op |-> "onExpandedNodesChange", effect |-> ~tagsLoaded]
  /\ UNCHANGED <<entryTypes, allEntries, selectedTags, treeCollection,
                 initialCollection, searchQuery, tagsLoaded>>
  /\ UNCHANGED notView

\* tagsData arrives: allTagNames changes, the memo of treeCollection is
\* recomputed and the expansion effect runs
tagsArrive ==
  /\ ~tagsLoaded
  /\ tagsLoaded' = TRUE
  /\ expandedNodes' = SyncExpanded(treeCollection, searchQuery, expandedNodes)
  /\ treeOp' = [op |-> "tagsArrive", effect |-> TRUE]
  /\ UNCHANGED <<entryTypes, allEntries, selectedTags, treeCollection,
                 initialCollection, searchQuery>>
  /\ UNCHANGED notView

ViewNext ==
  \/ \E query \in SearchQueries : setSearchQuery(query)
  \/ \E tags \in TagSelections : setSelectedTags(tags)
  \/ \E k \in DOMAIN filteredTreeCollection.nodes : onExpandedNodesChange(k)
  \/ tagsArrive

ViewSpec == ViewInit /\ [][ViewNext]_allVars

\* ------------------------------------------------- the entry type selector
\* the ids of the entry types
TypeIds == {entryTypes[i].id : i \in DOMAIN entryTypes}

\* what the steps of the selector leave alone
notSelector ==
  <<vars, allEntries, selectedTags, treeCollection, viewVars, delVars, weaveVars>>

\* initialCollection.filter(predicate) on the nested nodes: the nodes that
\* match or have a kept descendant, each with its kept children
RECURSIVE FilterNodes(_, _)
FilterNodes(ns, q) ==
  IF Len(ns) = 0 THEN <<>>
  ELSE LET n == Head(ns)
           kept == FilterNodes(n.children, q)
       IN (IF Contains(n.name, q) \/ Len(kept) > 0
           THEN <<[n EXCEPT !.hasChildren = TRUE, !.children = kept]>>
           ELSE <<>>)
          \o FilterNodes(Tail(ns), q)

\* initialCollection.filter((node) => contains(node.name, searchQuery))
filterHierarchy(ic, q) == [ic EXCEPT !.root = FilterNodes(ic.root, q)]

\* nextCollection.getBranchValues() on the nested nodes: the ids, in document
\* order, of the nodes below ROOT that have children
RECURSIVE NestedBranchValues(_)
NestedBranchValues(ns) ==
  IF Len(ns) = 0 THEN <<>>
  ELSE LET n == Head(ns)
       IN (IF Len(n.children) > 0 THEN <<n.id>> ELSE <<>>)
          \o NestedBranchValues(n.children)
          \o NestedBranchValues(Tail(ns))

\* hasHierarchy (lines 205-207)
hasHierarchy == \E i \in DOMAIN entryTypes : entryTypes[i].parent_id # Null

\* the selector after its first render: useState(initialCollection)
SelectorMounted ==
  /\ initialCollection = BuildHierarchy(entryTypes)
  /\ collection = initialCollection
  /\ showDropdown = FALSE /\ selectorQuery = "" /\ expanded = <<>>
  /\ isCreateModalOpen = FALSE /\ handExpanded = FALSE
  /\ selectorOp = "mount"

\* setQuery(""); setCollection(initialCollection); setExpanded([])
ResetSearch ==
  /\ selectorQuery' = ""
  /\ collection' = initialCollection
  /\ expanded' = <<>>
  /\ handExpanded' = FALSE

\* the trigger button: setShowDropdown(!showDropdown)
toggleDropdown ==
  /\ showDropdown' = ~showDropdown
  /\ selectorOp' = "toggleDropdown"
  /\ UNCHANGED <<selectorQuery, collection, expanded, isCreateModalOpen, handExpanded>>
  /\ UNCHANGED <<entryTypes, initialCollection, notSelector>>

\* search(searchQuery) of lines 151-165, from the input of the open dropdown
search(q) ==
  /\ showDropdown
  /\ q # selectorQuery
  /\ selectorQuery' = q
  /\ IF q = ""
     THEN /\ collection' = initialCollection
          /\ expanded' = <<>>
     ELSE /\ collection' = filterHierarchy(initialCollection, q)
          /\ expanded' = NestedBranchValues(collection'.root)
  /\ handExpanded' = FALSE
  /\ selectorOp' = "search"
  /\ UNCHANGED <<showDropdown, isCreateModalOpen>>
  /\ UNCHANGED <<entryTypes, initialCollection, notSelector>>

\* handleSelect of lines 167-173, from an item of the flat list
handleSelect ==
  /\ showDropdown /\ Len(entryTypes) > 0 /\ ~hasHierarchy
  /\ showDropdown' = FALSE
  /\ ResetSearch
  /\ selectorOp' = "handleSelect"
  /\ UNCHANGED isCreateModalOpen
  /\ UNCHANGED <<entryTypes, initialCollection, notSelector>>

\* handleClear of lines 179-187
handleClear ==
  /\ ResetSearch
  /\ selectorOp' = "handleClear"
  /\ UNCHANGED <<showDropdown, isCreateModalOpen>>
  /\ UNCHANGED <<entryTypes, initialCollection, notSelector>>

\* handleKeyDown of lines 189-196 in the input of the open dropdown
handleKeyDown(key) ==
  /\ showDropdown
  /\ selectorOp' = "handleKeyDown"
  /\ IF key = "Escape"
     THEN showDropdown' = FALSE /\ ResetSearch
     ELSE UNCHANGED <<showDropdown, selectorQuery, collection, expanded, handExpanded>>
  /\ UNCHANGED isCreateModalOpen
  /\ UNCHANGED <<entryTypes, initialCollection, notSelector>>

\* handleClickOutside of lines 138-145
handleClickOutside ==
  /\ showDropdown' = FALSE
  /\ ResetSearch
  /\ selectorOp' = "handleClickOutside"
  /\ UNCHANGED isCreateModalOpen
  /\ UNCHANGED <<entryTypes, initialCollection, notSelector>>

\* handleAddEntryType of lines 198-202, from the + of a node of the tree
handleAddEntryType ==
  /\ showDropdown /\ Len(entryTypes) > 0 /\ hasHierarchy
  /\ Len(collection.root) > 0
  /\ isCreateModalOpen' = TRUE
  /\ showDropdown' = FALSE
  /\ selectorOp' = "handleAddEntryType"
  /\ UNCHANGED <<selectorQuery, collection, expanded, handExpanded>>
  /\ UNCHANGED <<entryTypes, initialCollection, notSelector>>

\* onClose of the create modal
closeCreateModal ==
  /\ isCreateModalOpen
  /\ isCreateModalOpen' = FALSE
  /\ selectorOp' = "closeCreateModal"
  /\ UNCHANGED <<showDropdown, selectorQuery, collection, expanded, handExpanded>>
  /\ UNCHANGED <<entryTypes, initialCollection, notSelector>>

\* the node is rendered: each of its ancestors in the collection is expanded
RECURSIVE ShownIn(_, _)
ShownIn(ns, id) ==
  \E i \in DOMAIN ns :
    \/ ns[i].id = id
    \/ /\ \E j \in DOMAIN expanded : expanded[j] = ns[i].id
       /\ ShownIn(ns[i].children, id)

\* every node of a hierarchy, at any depth
RECURSIVE AllNested(_)
AllNested(ns) == UNION {{ns[i]} \cup AllNested(ns[i].children) : i \in DOMAIN ns}

\* onExpandedChange={(details) => setExpanded(details.expandedValue)}: the
\* user toggles a branch that is rendered
onExpandedChange(id) ==
  /\ showDropdown /\ Len(entryTypes) > 0 /\ hasHierarchy
  /\ \E n \in AllNested(collection.root) : n.id = id /\ Len(n.children) > 0
  /\ ShownIn(collection.root, id)
  /\ expanded' = IF \E j \in DOMAIN expanded : expanded[j] = id
                 THEN SelectSeq(expanded, LAMBDA v : v # id)
                 ELSE Append(expanded, id)
  /\ handExpanded' = TRUE
  /\ selectorOp' = "onExpandedChange"
  /\ UNCHANGED <<showDropdown, selectorQuery, collection, isCreateModalOpen>>
  /\ UNCHANGED <<entryTypes, initialCollection, notSelector>>

\* the entryTypes prop changes (the list is fetched again after an entry type
\* was created, under an existing type or at the top): the memo of
\* initialCollection is recomputed and the effect of lines 132-134 runs
refreshEntryTypes(parentId) ==
  /\ Len(entryTypes) < MaxTypes
  /\ entryTypes' = Append(entryTypes,
       [id |-> TypeIdPool[Len(entryTypes) + 1],
        name |-> TypeNamePool[Len(entryTypes) + 1], parent_id |-> parentId])
  /\ initialCollection' = BuildHierarchy(entryTypes')
  /\ collection' = initialCollection'
  /\ selectorOp' = "refreshEntryTypes"
  /\ UNCHANGED <<showDropdown, selectorQuery, expanded, isCreateModalOpen, handExpanded>>
  /\ UNCHANGED notSelector

\* the entry types the API has returned, and the selector after its first
\* render
SelectorInit ==
  /\ \E k \in 0..MaxTypes : entryTypes \in EntryTypeLists(k)
  /\ allEntries = <<>> /\ selectedTags = <<>>
  /\ treeCollection = NotBuilt
  /\ NoView
  /\ SelectorMounted
  /\ component = 0 /\ popup = 0 /\ renderers = <<>> /\ tippies = <<>>
  /\ sessionOpen = FALSE /\ overlapped = FALSE
  /\ last = NoArgs("init") /\ calls = <<>>
  /\ NoDeleteDialog /\ NoWeaveModal

SelectorNext ==
  \/ toggleDropdown
  \/ \E q \in SearchQueries : search(q)
  \/ handleSelect
  \/ handleClear
  \/ \E key \in {"Escape", "a"} : handleKeyDown(key)
  \/ handleClickOutside
  \/ handleAddEntryType
  \/ closeCreateModal
  \/ \E id \in TypeIds : onExpandedChange(id)
  \/ \E parentId \in {Null} \cup TypeIds : refreshEntryTypes(parentId)

SelectorSpec == SelectorInit /\ [][SelectorNext]_allVars

\* ---------------------------------------------------------- FilterSpec
\* the tree view and the selector after their first render
FilterInit ==
  /\ \E k \in 0..MaxTypes :
       /\ entryTypes \in EntryTypeLists(k)
       /\ \E m \in 0..MaxViewEntries : allEntries \in EntryLists(m, k)
  /\ selectedTags = <<>>
  /\ searchQuery = ""
  /\ tagsLoaded = TRUE
  /\ treeCollection = BuildGroupedTree(entryTypes, allEntries, selectedTags)
  /\ expandedNodes = SyncExpanded(treeCollection, searchQuery, <<>>)
  /\ treeOp = [op |-> "mount", effect |-> TRUE]
  /\ SelectorMounted
  /\ component = 0 /\ popup = 0 /\ renderers = <<>> /\ tippies = <<>>
  /\ sessionOpen = FALSE /\ overlapped = FALSE
  /\ last = NoArgs("init") /\ calls = <<>>
  /\ NoDeleteDialog /\ NoWeaveModal

\* typing into the two search boxes
FilterNext ==
  \/ \E query \in SearchQueries : setSearchQuery(query)
  \/ toggleDropdown
  \/ \E q \in SearchQueries : search(q)

FilterSpec == FilterInit /\ [][FilterNext]_allVars

\* ------------------------------------------ delete-entry-type dialog
\* the entries that matter to the delete guard: one title, no tags
DeleteEntryLists(m, k) ==
  {es \in EntryLists(m, k) :
     \A i \in DOMAIN es : es[i].title = "a" /\ ~es[i].hasTags}

\* getAllChildEntryTypeIds(typeId) of lines 340-349: the id, then the ids
\* collected from each type whose parent_id is the id; depth counts the
\* frames on the stack, and a stack that outgrows MaxDepth is the RangeError
\* of a call stack overflow
RECURSIVE getAllChildEntryTypeIds(_, _, _)
getAllChildEntryTypeIds(types, typeId, depth) ==
  IF depth > MaxDepth THEN [error |-> TRUE, ids |-> <<>>]
  ELSE LET childTypes == SelectSeq(types, LAMBDA et : et.parent_id = typeId)
           subs == [i \in DOMAIN childTypes |->
                      getAllChildEntryTypeIds(types, childTypes[i].id, depth + 1)]
           Cat[i \in 0..Len(childTypes)] ==
             IF i = 0 THEN <<typeId>> ELSE Cat[i - 1] \o subs[i].ids
       IN [error |-> \E i \in DOMAIN childTypes : subs[i].error,
           ids |-> Cat[Len(childTypes)]]

\* a guard that looks at the type's own entries only
entryTypeHasEntriesDirect(types, entries, typeId) ==
  \E i \in DOMAIN entries : entries[i].entry_type_id = typeId

\* entryTypeHasEntries(entryTypeId) of lines 338-355, when the collection of
\* the ids returns
entryTypeHasEntries(types, entries, typeId) ==
  LET allTypeIds == getAllChildEntryTypeIds(types, typeId, 1).ids
  IN \E i \in DOMAIN entries :
       \E j \in DOMAIN allTypeIds : allTypeIds[j] = entries[i].entry_type_id

\* the render of WorldDetail throws: the hasEntries prop of lines 779-781
\* is computed in every render that has a type to delete
RenderThrows ==
  /\ entryTypeToDelete.set
  /\ getAllChildEntryTypeIds(entryTypes, entryTypeToDelete.id, 1).error

\* the folders of the tree on screen, each with its EntryTypeActions
FoldersShown ==
  {k \in Descendants(treeCollection.nodes,
                     {treeCollection.root[i] : i \in DOMAIN treeCollection.root}) :
     treeCollection.nodes[k].isEntryTypeFolder}

notDelete ==
  <<vars, selectedTags, initialCollection, viewVars, selVars, weaveVars>>

DeleteInit ==
  /\ \E k \in 0..MaxTypes :
       /\ entryTypes \in EntryTypeLists(k)
       /\ \E m \in 0..MaxViewEntries : allEntries \in DeleteEntryLists(m, k)
  /\ selectedTags = <<>>
  /\ treeCollection = BuildGroupedTree(entryTypes, allEntries, selectedTags)
  /\ initialCollection = NotBuilt
  /\ NoView /\ NoSelector
  /\ NoDeleteDialog /\ NoWeaveModal
  /\ component = 0 /\ popup = 0 /\ renderers = <<>> /\ tippies = <<>>
  /\ sessionOpen = FALSE /\ overlapped = FALSE
  /\ last = NoArgs("init") /\ calls = <<>>

\* handleDeleteEntryType of lines 358-364, called by the delete button of a
\* folder's EntryTypeActions with entryTypeId(node) and node.name
handleDeleteEntryType(k) ==
  /\ ~RenderThrows
  /\ k \in FoldersShown
  /\ entryTypeToDelete' = [set |-> TRUE, id |-> entryTypeId(treeCollection.nodes[k]),
                           name |-> treeCollection.nodes[k].name]
  /\ deleteEntryTypeDialogOpen' = TRUE
  /\ deleteOp' = [op |-> "handleDeleteEntryType", mutate |-> Null]
  /\ UNCHANGED <<entryTypes, allEntries, treeCollection, deletePending>>
  /\ UNCHANGED notDelete

\* confirmDeleteEntryType of lines 366-370, the dialog's onConfirm.  The
\* dialog renders its Delete button only while hasEntries is false (lines
\* 56-60 of the dialog); the handler is taken here for every call of
\* onConfirm, those of the button included
confirmDeleteEntryType ==
  /\ ~RenderThrows
  /\ deleteEntryTypeDialogOpen
  /\ deletePending = Null
  /\ IF /\ entryTypeToDelete.set
        /\ ~entryTypeHasEntries(entryTypes, allEntries, entryTypeToDelete.id)
     THEN /\ deletePending' = entryTypeToDelete.id
          /\ deleteOp' = [op |-> "confirmDeleteEntryType",
                          mutate |-> entryTypeToDelete.id]
     ELSE /\ deletePending' = deletePending
          /\ deleteOp' = [op |-> "confirmDeleteEntryType", mutate |-> Null]
  /\ UNCHANGED <<entryTypes, allEntries, treeCollection, entryTypeToDelete,
                 deleteEntryTypeDialogOpen>>
  /\ UNCHANGED notDelete

\* onOpenChange={setDeleteEntryTypeDialogOpen}: the dialog is dismissed
closeDeleteDialog ==
  /\ ~RenderThrows
  /\ deleteEntryTypeDialogOpen
  /\ deleteEntryTypeDialogOpen' = FALSE
  /\ deleteOp' = [op |-> "onOpenChange", mutate |-> Null]
  /\ UNCHANGED <<entryTypes, allEntries, treeCollection, entryTypeToDelete,
                 deletePending>>
  /\ UNCHANGED notDelete

\* onSuccess of deleteEntryTypeMutation, lines 312-325 (the queries it
\* invalidates arrive as refetch steps)
deleteSuccess ==
  /\ deletePending # Null
  /\ deletePending' = Null
  /\ deleteEntryTypeDialogOpen' = FALSE
  /\ entryTypeToDelete' = NoEntryType
  /\ deleteOp' = [op |-> "onSuccess", mutate |-> Null]
  /\ UNCHANGED <<entryTypes, allEntries, treeCollection>>
  /\ UNCHANGED notDelete

\* onError of deleteEntryTypeMutation, lines 326-334
deleteError ==
  /\ deletePending # Null
  /\ deletePending' = Null
  /\ deleteOp' = [op |-> "onError", mutate |-> Null]
  /\ UNCHANGED <<entryTypes, allEntries, treeCollection, entryTypeToDelete,
                 deleteEntryTypeDialogOpen>>
  /\ UNCHANGED notDelete

\* the entryTypes query delivers a list in which one type has been moved
\* to another parent; the memo of the tree is computed again
refetchEntryTypes(i, parentId) ==
  /\ ~RenderThrows
  /\ i \in DOMAIN entryTypes
  /\ parentId # entryTypes[i].parent_id
  /\ entryTypes' = [entryTypes EXCEPT ![i].parent_id = parentId]
  /\ treeCollection' = BuildGroupedTree(entryTypes', allEntries, selectedTags)
  /\ deleteOp' = [op |-> "refetch", mutate |-> Null]
  /\ UNCHANGED <<allEntries, entryTypeToDelete, deleteEntryTypeDialogOpen,
                 deletePending>>
  /\ UNCHANGED notDelete

DeleteNext ==
  \/ \E k \in DOMAIN treeCollection.nodes : handleDeleteEntryType(k)
  \/ confirmDeleteEntryType
  \/ closeDeleteDialog
  \/ deleteSuccess
  \/ deleteError
  \/ \E i \in 1..MaxTypes, parentId \in {Null, DanglingId} \cup TypeIds :
       refetchEntryTypes(i, parentId)

DeleteSpec == DeleteInit /\ [][DeleteNext]_allVars

\* ------------------------------------------------------ DeleteWeaveModal
\* the most weaves a user has
MaxWeaves == 3

\* weaves = weavesData?.data ?? [] ; isOnlyWeave = weaves.length === 1
isOnlyWeave == (IF weavesLoaded THEN weavesData ELSE 0) = 1

notWeave == <<vars, entryTypes, allEntries, selectedTags, treeCollection,
              initialCollection, viewVars, selVars, delVars>>

\* the modal is mounted closed, its query of the weaves in flight
WeaveInit ==
  /\ weaveCount \in 1..MaxWeaves
  /\ weavesLoaded = FALSE /\ weavesData = 0
  /\ isOpen = FALSE /\ isDeleting = FALSE /\ deletePendingWeave = FALSE
  /\ weaveOp = [op |-> "none", mutated |-> FALSE]
  /\ entryTypes = <<>> /\ allEntries = <<>> /\ selectedTags = <<>>
  /\ treeCollection = NotBuilt /\ initialCollection = NotBuilt
  /\ NoView /\ NoSelector /\ NoDeleteDialog
  /\ component = 0 /\ popup = 0 /\ renderers = <<>> /\ tippies = <<>>
  /\ sessionOpen = FALSE /\ overlapped = FALSE
  /\ last = NoArgs("init") /\ calls = <<>>

\* the parent opens the modal (prop isOpen)
openModal ==
  /\ ~isOpen /\ ~deletePendingWeave
  /\ isOpen' = TRUE
  /\ weaveOp' = [op |-> "open", mutated |-> FALSE]
  /\ UNCHANGED <<weaveCount, weavesLoaded, weavesData, isDeleting, deletePendingWeave>>
  /\ UNCHANGED notWeave

\* the query of lines 478-481 delivers the user's weaves, for the first
\* time or again
weavesArrive ==
  /\ ~weavesLoaded \/ weavesData # weaveCount
  /\ weavesLoaded' = TRUE
  /\ weavesData' = weaveCount
  /\ weaveOp' = [op |-> "weavesArrive", mutated |-> FALSE]
  /\ UNCHANGED <<weaveCount, isOpen, isDeleting, deletePendingWeave>>
  /\ UNCHANGED notWeave

\* handleDelete of lines 518-522, the onClick of the Delete Weave button
\* (not clickable while loading={isDeleting})
handleDelete ==
  /\ isOpen /\ ~isDeleting
  /\ IF isOnlyWeave
     THEN /\ UNCHANGED <<isDeleting, deletePendingWeave>>
          /\ weaveOp' = [op |-> "handleDelete", mutated |-> FALSE]
     ELSE /\ isDeleting' = TRUE
          /\ deletePendingWeave' = TRUE
          /\ weaveOp' = [op |-> "handleDelete", mutated |-> TRUE]
  /\ UNCHANGED <<weaveCount, weavesLoaded, weavesData, isOpen>>
  /\ UNCHANGED notWeave

\* onSuccess of deleteMutation, lines 492-506: the weave is gone, onClose()
weaveDeleteSuccess ==
  /\ deletePendingWeave
  /\ weaveCount > 1
  /\ weaveCount' = weaveCount - 1
  /\ deletePendingWeave' = FALSE
  /\ isOpen' = FALSE
  /\ weaveOp' = [op |-> "onSuccess", mutated |-> FALSE]
  /\ UNCHANGED <<weavesLoaded, weavesData, isDeleting>>
  /\ UNCHANGED notWeave

\* onError of deleteMutation, lines 507-515
weaveDeleteError ==
  /\ deletePendingWeave
  /\ deletePendingWeave' = FALSE
  /\ isDeleting' = FALSE
  /\ weaveOp' = [op |-> "onError", mutated |-> FALSE]
  /\ UNCHANGED <<weaveCount, weavesLoaded, weavesData, isOpen>>
  /\ UNCHANGED notWeave

\* onOpenChange of line 527, Cancel and Close: !isDeleting && !e.open && onClose()
closeModal ==
  /\ isOpen /\ ~isDeleting
  /\ isOpen' = FALSE
  /\ weaveOp' = [op |-> "close", mutated |-> FALSE]
  /\ UNCHANGED <<weaveCount, weavesLoaded, weavesData, isDeleting, deletePendingWeave>>
  /\ UNCHANGED notWeave

\* another session of the user creates a weave or deletes one of several
weavesChange(n) ==
  /\ ~deletePendingWeave
  /\ n \in 1..MaxWeaves
  /\ n = weaveCount + 1 \/ n = weaveCount - 1
  /\ weaveCount' = n
  /\ weaveOp' = [op |-> "weavesChange", mutated |-> FALSE]
  /\ UNCHANGED <<weavesLoaded, weavesData, isOpen, isDeleting, deletePendingWeave>>
  /\ UNCHANGED notWeave

WeaveNext ==
  \/ openModal
  \/ weavesArrive
  \/ handleDelete
  \/ weaveDeleteSuccess
  \/ weaveDeleteError
  \/ closeModal
  \/ \E n \in 1..MaxWeaves : weavesChange(n)

WeaveSpec == WeaveInit /\ [][WeaveNext]_allVars

\* ------------------------------------------------------- claim vocabulary
Range(s) == {s[i] : i \in DOMAIN s}

\* the input entry types that are their own parent
SelfParents == {t \in Range(entryTypes) : t.parent_id = t.id}

\* the node objects the grouped builder created
Nodes == treeCollection.nodes

\* the keys of the nodes reachable from these through children
RECURSIVE ReachFrom(_, _)
ReachFrom(heap, ks) ==
  LET next == ks \cup UNION {Range(heap[k].children) : k \in ks}
  IN IF next = ks THEN ks ELSE ReachFrom(heap, next)

\* the nodes of the emitted tree: those reachable from ROOT
Emitted == ReachFrom(Nodes, Range(treeCollection.root))

\* the folder nodes of the emitted tree
EmittedFolders == {k \in Emitted : Nodes[k].isEntryTypeFolder}

\* how many times a node is listed in a sequence of children
Occurrences(children, k) == Cardinality({i \in DOMAIN children : children[i] = k})

\* the nodes that list k among their children
ParentsOf(k) == {p \in DOMAIN Nodes : k \in Range(Nodes[p].children)}

\* ------------------------------------------------------------------ claims

\* C11 as stated: for every list of entry types with distinct ids, every list
\* of entries and every tag selection, the tree reachable from ROOT holds
\* exactly one folder node "type-" + id for each input entry type.
C11_Original ==
  treeCollection.built =>
    \A id \in TypeIds :
      Cardinality({k \in EmittedFolders : Nodes[k].id = "type-" \o id}) = 1

\* C12 as stated: the folder of an entry type that is its own parent is not a
\* child of itself and is a direct child of ROOT.
C12_Original ==
  treeCollection.built =>
    \A t \in SelfParents :
      /\ FolderKey(t.id) \notin Range(Nodes[FolderKey(t.id)].children)
      /\ FolderKey(t.id) \in Range(treeCollection.root)

\* C13 as stated: a folder is a direct child of ROOT iff its type's parent_id
\* is null or names no input entry type; every other folder is a child of
\* exactly the folder of the type its parent_id names.
C13_Original ==
  treeCollection.built =>
    \A t \in Range(entryTypes) :
      IF t.parent_id = Null \/ t.parent_id \notin TypeIds
      THEN FolderKey(t.id) \in Range(treeCollection.root)
      ELSE /\ FolderKey(t.id) \notin Range(treeCollection.root)
           /\ ParentsOf(FolderKey(t.id)) = {FolderKey(t.parent_id)}

\* C13 amended: for every entry type that is not its own parent, its folder is
\* a direct child of ROOT (once) iff its parent_id is null or names no input
\* entry type; otherwise it is not a child of ROOT and is a child, once, of
\* exactly the folder of the type its parent_id names.
C13_RootsAndParents ==
  treeCollection.built =>
    \A t \in Range(entryTypes) \ SelfParents :
      IF t.parent_id = Null \/ t.parent_id \notin TypeIds
      THEN /\ Occurrences(treeCollection.root, FolderKey(t.id)) = 1
           /\ ParentsOf(FolderKey(t.id)) = {}
      ELSE /\ FolderKey(t.id) \notin Range(treeCollection.root)
           /\ ParentsOf(FolderKey(t.id)) = {FolderKey(t.parent_id)}
           /\ Occurrences(Nodes[FolderKey(t.parent_id)].children, FolderKey(t.id)) = 1

\* C13 witness: a tree built from a type with a null parent_id, a type with a
\* dangling parent_id and a type whose parent_id names another type.
C13_Witness ==
  /\ treeCollection.built
  /\ \E a, b, c \in Range(entryTypes) :
       /\ a.parent_id = Null
       /\ b.parent_id = DanglingId
       /\ c.parent_id \in TypeIds \ {c.id}
       /\ Range(treeCollection.root) = {FolderKey(a.id), FolderKey(b.id)}


\* the entry nodes of an emitted tree
EntriesOf(tc) == {k \in ReachFrom(tc.nodes, Range(tc.root)) : ~tc.nodes[k].isEntryTypeFolder}

\* the entry has every selected tag
Tagged(e) == e.hasTags /\ Range(selectedTags) \subseteq e.tags

\* C14: with some tags selected, every entry node of the tree is an entry
\* whose tags include every selected tag; with no tag selected, the entry
\* nodes are those of the tree built from the unfiltered entries.
C14_TagFilter ==
  treeCollection.built =>
    IF Len(selectedTags) > 0
    THEN \A e \in Range(allEntries) :
           EntryKey(e.id) \in EntriesOf(treeCollection) => Tagged(e)
    ELSE Len(entryTypes) > 0 =>
           EntriesOf(treeCollection) = EntriesOf(GroupEntries(entryTypes, allEntries))

\* C14 witness: two tags are selected; an entry with both is in the tree and
\* an entry of the same type with only one of them is not.
C14_Witness ==
  /\ treeCollection.built /\ Len(selectedTags) = 2
  /\ \E a, b \in Range(allEntries) :
       /\ a.entry_type_id = b.entry_type_id
       /\ a.tags = {"x", "y"} /\ b.tags = {"x"}
       /\ EntryKey(a.id) \in EntriesOf(treeCollection)
       /\ EntryKey(b.id) \notin DOMAIN Nodes

\* C15 as stated: an entry is in the emitted tree iff it passes the tag filter
\* and its entry_type_id is the id of an input entry type; it is then listed
\* once, in the children of that type's folder and nowhere else.
C15_Original ==
  treeCollection.built =>
    \A e \in Range(allEntries) :
      IF (Len(selectedTags) = 0 \/ Tagged(e)) /\ e.entry_type_id \in TypeIds
      THEN /\ EntryKey(e.id) \in Emitted
           /\ EntryKey(e.id) \notin Range(treeCollection.root)
           /\ ParentsOf(EntryKey(e.id)) = {FolderKey(e.entry_type_id)}
           /\ Occurrences(Nodes[FolderKey(e.entry_type_id)].children, EntryKey(e.id)) = 1
      ELSE EntryKey(e.id) \notin Emitted

\* the node is an entry node
IsEntry(k) == ~Nodes[k].isEntryTypeFolder

\* C16: in the children of every folder, no sub-folder comes after an entry,
\* and the entries are in ascending order of title (the order of
\* localeCompare).
C16_ChildOrder ==
  treeCollection.built =>
    \A p \in DOMAIN Nodes :
      LET ch == Nodes[p].children
      IN \A i, j \in DOMAIN ch :
           i < j =>
             /\ ~(IsEntry(ch[i]) /\ ~IsEntry(ch[j]))
             /\ (IsEntry(ch[i]) /\ IsEntry(ch[j])) =>
                  LocaleCompare(Nodes[ch[i]].name, Nodes[ch[j]].name) <= 0

\* C16 witness: a folder of the emitted tree lists a sub-folder and then two
\* entries, "a" before "B", that the input had in the other order.
C16_Witness ==
  /\ treeCollection.built
  /\ Len(allEntries) = 2 /\ allEntries[1].title = "B" /\ allEntries[2].title = "a"
  /\ \E p \in EmittedFolders :
       /\ Len(Nodes[p].children) = 3
       /\ ~IsEntry(Nodes[p].children[1])
       /\ Nodes[p].children[2] = EntryKey(allEntries[2].id)
       /\ Nodes[p].children[3] = EntryKey(allEntries[1].id)

\* C17: when the tree collection is returned, no node the builder created,
\* reachable from ROOT or not, carries _parentId.
C17_NoParentIdLeft ==
  treeCollection.built => \A k \in DOMAIN Nodes : ~Nodes[k].hasParentId

\* C17 witness: a tree built from a self-parent type, a type with a dangling
\* parent_id and a child type; the self-parent folder is not reachable.
C17_Witness ==
  /\ treeCollection.built
  /\ \E a, b, c \in Range(entryTypes) :
       /\ a.parent_id = a.id /\ b.parent_id = DanglingId /\ c.parent_id = b.id
       /\ FolderKey(a.id) \in DOMAIN Nodes \ Emitted
       /\ FolderKey(c.id) \in Emitted

\* C18: both builders return a tree and raise no error, whatever the
\* parent_ids are (self-parent types and parent cycles included).
C18_BuildersComplete ==
  /\ treeCollection.built => ~treeCollection.error
  /\ initialCollection.built => ~initialCollection.error

\* C18 witness: both trees are built from a self-parent type and two types
\* that are each other's parent.
C18_Witness ==
  /\ treeCollection.built /\ ~treeCollection.error
  /\ initialCollection.built /\ ~initialCollection.error
  /\ \E a, b, c \in Range(entryTypes) :
       /\ a.parent_id = a.id
       /\ b.parent_id = c.id /\ c.parent_id = b.id /\ b.id # c.id

\* every node of a hierarchy, at any depth
RECURSIVE NestedNodes(_)
NestedNodes(ns) == UNION {{ns[i]} \cup NestedNodes(ns[i].children) : i \in DOMAIN ns}

\* C19: in the trees of both builders, a node other than ROOT has children
\* iff it has at least one child node; children is never an empty sequence.
C19_ChildrenPresence ==
  /\ treeCollection.built =>
       \A k \in DOMAIN Nodes : Nodes[k].hasChildren <=> Len(Nodes[k].children) > 0
  /\ initialCollection.built =>
       \A n \in NestedNodes(initialCollection.root) :
         n.hasChildren <=> Len(n.children) > 0

\* C19 witness: the grouped tree has a folder with children and a folder
\* without, and the hierarchy has a node with a child and a leaf.
C19_Witness ==
  /\ treeCollection.built /\ initialCollection.built
  /\ \E k, l \in EmittedFolders : Nodes[k].hasChildren /\ ~Nodes[l].hasChildren
  /\ \E n, m \in NestedNodes(initialCollection.root) :
       n.hasChildren /\ ~m.hasChildren /\ m \in Range(n.children)


\* C20: after a step in which the expansion effect ran, the expanded ids are,
\* as a set, the branch values of the tree filtered by the query when the
\* query is not empty, and the ids of the entry-type folders of the tree
\* when it is empty.
C20_SyncTarget ==
  treeOp.effect =>
    Range(expandedNodes) =
      IF searchQuery # ""
      THEN Range(getBranchValues(filter(treeCollection, searchQuery)))
      ELSE {Nodes[k].id : k \in EmittedFolders}

\* C20 witness: the effect ran for a query that keeps some folders of the
\* emitted tree and drops others.
C20_Witness ==
  /\ treeOp.op = "setSearchQuery" /\ treeOp.effect /\ searchQuery # ""
  /\ expandedNodes # <<>>
  /\ Range(expandedNodes) # {Nodes[k].id : k \in EmittedFolders}
  /\ Range(expandedNodes) \subseteq {Nodes[k].id : k \in EmittedFolders}


\* the steps of the tree view in which the expansion effect runs on the
\* expansion state as the step found it
SyncingOps == {"setSearchQuery", "setSelectedTags", "tagsArrive"}

\* C21: when the effect runs and the target it computes has the same members
\* (and so the same size) as the expanded set, the expansion state keeps its
\* previous value; and a further run of the effect for the same tree and
\* query changes nothing.
C21_SyncFixedPoint ==
  [][treeOp'.op \in SyncingOps =>
       /\ Range(SyncTarget(treeCollection', searchQuery')) = Range(expandedNodes)
            => expandedNodes' = expandedNodes
       /\ SyncExpanded(treeCollection', searchQuery', expandedNodes') = expandedNodes'
    ]_allVars

\* C21 witness: the effect ran after a tag change and kept an expansion state
\* that lists the target's ids in another order than the target does.
C21_Witness ==
  /\ treeOp.op = "setSelectedTags"
  /\ Range(expandedNodes) = Range(SyncTarget(treeCollection, searchQuery))
  /\ expandedNodes # SyncTarget(treeCollection, searchQuery)


\* C22: while a search box is empty the collection displayed is the tree as
\* built, also after earlier searches with a query; the built trees are never
\* changed by a search.
C22_FilterKeepsSource ==
  /\ treeCollection = BuildGroupedTree(entryTypes, allEntries, selectedTags)
  /\ initialCollection = BuildHierarchy(entryTypes)
  /\ searchQuery = "" => filteredTreeCollection = treeCollection
  /\ selectorQuery = "" => collection = initialCollection

\* C22 witness: both search boxes were cleared after a query that had
\* dropped nodes of the trees.
C22_Witness ==
  /\ treeOp.op = "setSearchQuery" /\ searchQuery = ""
  /\ selectorOp = "search" /\ selectorQuery = ""
  /\ filter(treeCollection, "ab").nodes # treeCollection.nodes
  /\ filterHierarchy(initialCollection, "ab") # initialCollection
  /\ collection.root # <<>>


\* the ids and names of the nodes of a hierarchy, with their nesting
RECURSIVE Shape(_)
Shape(ns) ==
  [i \in DOMAIN ns |->
     [id |-> ns[i].id, name |-> ns[i].name, children |-> Shape(ns[i].children)]]

\* C29 as stated: after any sequence of steps of the selector and refreshes
\* of the entry type list, the collection displayed is the current
\* initialCollection when the query is empty and the current
\* initialCollection filtered by the query otherwise; while the query is
\* empty nothing is expanded unless the user has expanded nodes by hand.
C29_Original ==
  /\ selectorQuery = "" => collection = initialCollection
  /\ selectorQuery # "" =>
       Shape(collection.root)
         = Shape(filterHierarchy(initialCollection, selectorQuery).root)
  /\ (selectorQuery = "" /\ ~handExpanded) => expanded = <<>>


\* following parent_id from the type, within `fuel` steps: "null" if the
\* chain ends in null, "dangling" if it ends in an id that no type has,
\* "cycle" if it does not end
RECURSIVE ChainEnd(_, _)
ChainEnd(t, fuel) ==
  IF t.parent_id = Null THEN "null"
  ELSE IF t.parent_id \notin TypeIds THEN "dangling"
  ELSE IF fuel = 0 THEN "cycle"
  ELSE ChainEnd(CHOOSE p \in Range(entryTypes) : p.id = t.parent_id, fuel - 1)

\* how many nodes of the hierarchy have this id
RECURSIVE CountId(_, _)
CountId(ns, id) ==
  IF Len(ns) = 0 THEN 0
  ELSE (IF Head(ns).id = id THEN 1 ELSE 0)
       + CountId(Head(ns).children, id) + CountId(Tail(ns), id)

\* the forest has one node per entry type, the children of a node are the
\* types whose parent_id is its id, and the children of ROOT are the types
\* whose parent_id is null
ForestMatchesInput ==
  /\ \A t \in Range(entryTypes) : CountId(initialCollection.root, t.id) = 1
  /\ \A n \in NestedNodes(initialCollection.root) :
       {n.children[i].id : i \in DOMAIN n.children}
         = {t.id : t \in {u \in Range(entryTypes) : u.parent_id = n.id}}
  /\ {initialCollection.root[i].id : i \in DOMAIN initialCollection.root}
       = {t.id : t \in {u \in Range(entryTypes) : u.parent_id = Null}}

\* C23 as stated: for every list of entry types without a parent_id cycle,
\* the forest under ROOT has exactly one node per entry type, c is a child of
\* p iff c's parent_id is p's id, and the children of ROOT are the types
\* with parent_id null.
C23_Original ==
  (/\ initialCollection.built
   /\ \A t \in Range(entryTypes) : ChainEnd(t, Len(entryTypes)) # "cycle")
    => ForestMatchesInput

\* C23 amended: the same, for every list of entry types in which each chain
\* of parent_ids ends in null (no cycle and no parent_id that names no type).
C23_ForestOfRootedChains ==
  (/\ initialCollection.built
   /\ \A t \in Range(entryTypes) : ChainEnd(t, Len(entryTypes)) = "null")
    => ForestMatchesInput

\* C23 witness: the hierarchy built from a type with parent_id null, a child
\* of it and a child of that child.
C23_Witness ==
  /\ initialCollection.built
  /\ \A t \in Range(entryTypes) : ChainEnd(t, Len(entryTypes)) = "null"
  /\ \E a, b, c \in Range(entryTypes) :
       a.parent_id = Null /\ b.parent_id = a.id /\ c.parent_id = b.id
  /\ Len(initialCollection.root) = 1
  /\ Len(initialCollection.root[1].children[1].children) = 1


\* C24: the ids of the nodes of the emitted tree are pairwise distinct (also
\* when an entry has the id of an entry type); the id of the folder of an
\* entry type is "type-" followed by the type's id, and the id that
\* EntryTypeActions extracts from it is the type's id.
C24_NodeIdentity ==
  treeCollection.built =>
    /\ \A k, l \in Emitted : k # l => Nodes[k].id # Nodes[l].id
    /\ \A t \in Range(entryTypes) :
         /\ Nodes[FolderKey(t.id)].id = "type-" \o t.id
         /\ entryTypeId(Nodes[FolderKey(t.id)]) = t.id

\* C24 witness: the emitted tree holds the folder of an entry type and,
\* inside it, an entry that has the same id as the type.
C24_Witness ==
  /\ treeCollection.built
  /\ \E t \in Range(entryTypes), e \in Range(allEntries) :
       /\ e.id = t.id /\ e.entry_type_id = t.id
       /\ FolderKey(t.id) \in Emitted /\ EntryKey(e.id) \in Emitted


\* C25 as stated: when sessions do not overlap, an onUpdate with a query not
\* starting with a space that directly follows an onStart that created a
\* list instance (with or without an anchor rect) calls updateProps on that
\* live list instance.
C25_Original ==
  [][(/\ StartedPastGuards /\ ~overlapped
      /\ last'.op = "onUpdate" /\ ~last'.lead) =>
       \E i \in DOMAIN calls' :
         /\ calls'[i].fn = "component.updateProps"
         /\ calls'[i].on = component /\ calls'[i].live
    ]_vars


\* C26 as stated: in every sequence of callbacks, an onKeyDown that calls the
\* key handler of a list instance calls it on an instance that has not been
\* destroyed.
C26_Original ==
  last.op = "onKeyDown" =>
    \A i \in DOMAIN calls : calls[i].fn = "ref.onKeyDown" => calls[i].live


\* the ids of the types that are idSet's or descend from them via parent_id
RECURSIVE TypeClosure(_)
TypeClosure(idSet) ==
  LET next == idSet \cup {entryTypes[i].id : i \in {j \in DOMAIN entryTypes :
                                                    entryTypes[j].parent_id \in idSet}}
  IN IF next = idSet THEN idSet ELSE TypeClosure(next)

\* an entry of allEntries belongs to the type or to one of its descendants
HasEntriesBelow(typeId) ==
  \E i \in DOMAIN allEntries : allEntries[i].entry_type_id \in TypeClosure({typeId})

\* C27: a call of confirmDeleteEntryType issues the delete mutation, for the
\* type the dialog is about, only when no entry of allEntries belongs to that
\* type or to a type descending from it; when such an entry exists the call
\* issues no mutation and changes no state.
C27_DeleteGuard ==
  [][deleteOp'.op = "confirmDeleteEntryType" =>
       /\ deleteOp'.mutate # Null =>
            /\ deleteOp'.mutate = entryTypeToDelete.id
            /\ ~HasEntriesBelow(entryTypeToDelete.id)
       /\ HasEntriesBelow(entryTypeToDelete.id) =>
            /\ deleteOp'.mutate = Null
            /\ UNCHANGED <<entryTypes, allEntries, treeCollection, entryTypeToDelete,
                           deleteEntryTypeDialogOpen, deletePending>>
    ]_allVars

\* a mutation was issued for a type that has a type below it
C27_Witness ==
  /\ deleteOp.op = "confirmDeleteEntryType" /\ deleteOp.mutate # Null
  /\ Cardinality(TypeClosure({deleteOp.mutate})) > 2
  /\ allEntries # <<>>

\* C28 as stated: for every list of entry types, a self-parent type and
\* parent cycles included, the collection of the descendant ids of the type
\* the dialog is about returns.
C28_Original ==
  entryTypeToDelete.set =>
    ~getAllChildEntryTypeIds(entryTypes, entryTypeToDelete.id, 1).error


\* C30 as stated: handleDelete never issues the delete mutation while the
\* weave is the user's only weave, whether the list of weaves has arrived
\* or not.
C30_Original ==
  (weaveOp.op = "handleDelete" /\ weaveOp.mutated) => weaveCount > 1

====
